---- MODULE Spec2Model ----
(***************************************************************************)
(* Model of cloudsplaining/scan/authorization_details.py:                  *)
(* AuthorizationDetails (the scan engine and the principal-policy mapping  *)
(* builder) and PrincipalPolicyMapping (the exclusion-aware filter).       *)
(*                                                                         *)
(* Python strings are sequences of code points, so that str.lower(), the   *)
(* substring test and the lexicographic order used by sorted() are         *)
(* computed, not assumed.                                                  *)
(***************************************************************************)
EXTENDS Integers, Sequences, FiniteSets, TLC

VARIABLES
    user_detail_list,   \* AuthorizationDetails.user_detail_list.principals
    group_detail_list,  \* AuthorizationDetails.group_detail_list.principals
    role_detail_list,   \* AuthorizationDetails.role_detail_list.principals
    policies,           \* AuthorizationDetails.policies.policy_details
    findings,           \* AuthorizationDetails.findings (the aggregator)
    entries,            \* PrincipalPolicyMapping.entries of the mapping object
    aws_managed_policies_in_use,       \* AuthorizationDetails attribute
    customer_managed_policies_in_use,  \* AuthorizationDetails attribute
    ret                 \* the last call: its name, arguments, outcome, and
                        \* the calls that its scan of principals made to
                        \* the exclusions and to the statement evaluator

vars == <<user_detail_list, group_detail_list, role_detail_list, policies,
          findings, entries, aws_managed_policies_in_use,
          customer_managed_policies_in_use, ret>>

authvars == <<user_detail_list, group_detail_list, role_detail_list, policies,
              aws_managed_policies_in_use, customer_managed_policies_in_use>>

-----------------------------------------------------------------------------
(* Python strings *)

\* str.lower() on ASCII: 'A'..'Z' (65..90) map to 'a'..'z'
Lower(s) == [i \in DOMAIN s |-> IF s[i] \in 65..90 THEN s[i] + 32 ELSE s[i]]

\* s < t for str: lexicographic by code point, a proper prefix is smaller
StrLess(s, t) ==
    \E i \in 1..(Len(s) + 1) :
        /\ i <= Len(t)
        /\ \A j \in 1..(i - 1) : s[j] = t[j]
        /\ (i = Len(s) + 1 \/ s[i] < t[i])

\* k < l for tuples of str of equal length (the itemgetter keys)
TupleLess(k, l) ==
    \E i \in 1..Len(k) :
        /\ \A j \in 1..(i - 1) : k[j] = l[j]
        /\ StrLess(k[i], l[i])

\* needle in s
Contains(s, needle) ==
    \E i \in 0..(Len(s) - Len(needle)) :
        \A j \in 1..Len(needle) : s[i + j] = needle[j]

\* the literals of the source
User == <<85, 115, 101, 114>>
Group == <<71, 114, 111, 117, 112>>
Role == <<82, 111, 108, 101>>
Users == <<85, 115, 101, 114, 115>>
Groups == <<71, 114, 111, 117, 112, 115>>
Inline == <<73, 110, 108, 105, 110, 101>>
Managed == <<77, 97, 110, 97, 103, 101, 100>>
AWS == <<65, 87, 83>>
Customer == <<67, 117, 115, 116, 111, 109, 101, 114>>
\* "arn:aws:iam::aws:"
AwsArnSegment == <<97, 114, 110, 58, 97, 119, 115, 58, 105, 97, 109, 58, 58, 97, 119, 115, 58>>

\* if x: for a list or None (None is modelled as the empty list: the code
\* only ever tests such values for truth or iterates them)
None == <<>>
Truthy(x) == x # <<>>

\* list(dict.fromkeys(s)): the first occurrence of each element, in order
DictFromKeys(s) ==
    LET F[i \in 0..Len(s)] ==
            IF i = 0 THEN <<>>
            ELSE IF \E j \in 1..Len(F[i - 1]) : F[i - 1][j] = s[i]
                 THEN F[i - 1]
                 ELSE Append(F[i - 1], s[i])
    IN  F[Len(s)]

\* one step of sorted(): x put into the sorted list t after the pos
\* elements of t that are not greater than it, so that elements that compare
\* equal keep their order (the sort is stable)
InsertAfter(t, x, pos) == SubSeq(t, 1, pos) \o <<x>> \o SubSeq(t, pos + 1, Len(t))

\* no key is less than the key before it
IsSortedBy(keys) ==
    \A i \in 1..(Len(keys) - 1) : ~TupleLess(keys[i + 1], keys[i])

\* all sequences over S of length at most n
SeqsUpTo(S, n) == UNION {[1..k -> S] : k \in 0..n}

Range(s) == {s[i] : i \in DOMAIN s}

\* the concatenation of the sequences ss[1], ss[2], ...: what a loop
\* appends when its i-th iteration appends ss[i]
RECURSIVE Flatten(_)
Flatten(ss) == IF ss = <<>> THEN <<>> ELSE Head(ss) \o Flatten(Tail(ss))

-----------------------------------------------------------------------------
(* Exclusions *)

\* isinstance(exclusions, Exclusions)
IsExclusions(x) == x.class = "Exclusions"

MkExclusions(u, g, r, p) ==
    [class |-> "Exclusions", users |-> u, groups |-> g, roles |-> r, policies |-> p]

\* an argument that is not an Exclusions object (a plain dict)
NotAnExclusions == [class |-> "dict"]

-----------------------------------------------------------------------------
(* PrincipalPolicyMappingEntry and PrincipalPolicyMapping *)

\* PrincipalPolicyMappingEntry.__init__
PrincipalPolicyMappingEntry(principal_name, principal_type, policy_type, managed_by, policy_name, comment) ==
    [principal_name |-> principal_name, principal_type |-> principal_type,
     policy_type |-> policy_type, managed_by |-> managed_by,
     policy_name |-> policy_name, comment |-> comment]

\* isinstance(x, PrincipalPolicyMappingEntry)
IsMappingEntry(x) == "principal_name" \in DOMAIN x

\* an object that is not a PrincipalPolicyMappingEntry (a plain dict)
NotAnEntry == [Principal |-> <<>>]

\* PrincipalPolicyMappingEntry.json
EntryJson(e) ==
    [Principal |-> e.principal_name, Type |-> e.principal_type,
     PolicyType |-> e.policy_type, ManagedBy |-> e.managed_by,
     PolicyName |-> e.policy_name, Comment |-> e.comment]

\* itemgetter("Type", "Principal", "PolicyType", "PolicyName")
MappingKey(d) == <<d.Type, d.Principal, d.PolicyType, d.PolicyName>>

\* the mapping left in the order it was built
SortMapping_Unsorted(s) == s

\* sorted(mapping, key=itemgetter(...)), the sort of both emitters
SortMapping(s) ==
    LET Ins(t, x) ==
            InsertAfter(t, x, Cardinality({j \in 1..Len(t) :
                                  ~TupleLess(MappingKey(x), MappingKey(t[j]))}))
        F[i \in 0..Len(s)] == IF i = 0 THEN <<>> ELSE Ins(F[i - 1], s[i])
    IN  F[Len(s)]

\* PrincipalPolicyMapping.json
MappingJson(es) == SortMapping([i \in DOMAIN es |-> EntryJson(es[i])])

\* PrincipalPolicyMapping.users / .groups / .roles
EntriesOfType(es, t) == SelectSeq(es, LAMBDA e : e.principal_type = t)

\* the user loop without its comment test: every User entry that is not
\* excluded by name or policy is added once
FilterUserEntry_NoCommentTest(e, ex) ==
    IF /\ ~(Lower(e.principal_name) \in ex.users)
       /\ ~(Lower(e.policy_name) \in ex.policies)
    THEN <<e>>
    ELSE <<>>

\* the user loop of get_post_exclusion_principal_policy_mapping: one add()
\* per group of the comment that is not excluded
FilterUserEntry(e, ex) ==
    IF /\ ~(Lower(e.principal_name) \in ex.users)
       /\ ~(Lower(e.policy_name) \in ex.policies)
       /\ Truthy(e.comment)
    THEN Flatten([n \in DOMAIN e.comment |->
                     IF Lower(e.comment[n]) \notin ex.groups THEN <<e>> ELSE <<>>])
    ELSE <<>>

FilterUsers(users, ex) ==
    Flatten([n \in DOMAIN users |-> FilterUserEntry(users[n], ex)])

\* non_excluded_groups, computed from everything added to the filtered
\* mapping so far
LoweredComment(user_entry) ==
    IF Truthy(user_entry.comment)
    THEN [i \in DOMAIN user_entry.comment |-> Lower(user_entry.comment[i])]
    ELSE <<>>

NonExcludedGroups(filtered) ==
    Flatten([n \in DOMAIN filtered |-> LoweredComment(filtered[n])])

\* one iteration of the group loop, on the filtered mapping built so far
FilterGroupEntry(filtered, e, ex) ==
    IF /\ ~(Lower(e.principal_name) \in ex.groups)
       /\ ~(Lower(e.policy_name) \in ex.policies)
       /\ Lower(e.principal_name) \in Range(NonExcludedGroups(filtered))
    THEN Append(filtered, e)
    ELSE filtered

FilterGroups(filtered, groups, ex) ==
    LET F[i \in 0..Len(groups)] ==
            IF i = 0 THEN filtered ELSE FilterGroupEntry(F[i - 1], groups[i], ex)
    IN  F[Len(groups)]

\* the role loop body with the test of the role's name inverted
FilterRoleEntry_KeepExcluded(e, ex) ==
    IF /\ Lower(e.principal_name) \in ex.roles
       /\ ~(Lower(e.policy_name) \in ex.policies)
    THEN <<e>>
    ELSE <<>>

FilterRoleEntry(e, ex) ==
    IF /\ ~(Lower(e.principal_name) \in ex.roles)
       /\ ~(Lower(e.policy_name) \in ex.policies)
    THEN <<e>>
    ELSE <<>>

FilterRoles(roles, ex) ==
    Flatten([n \in DOMAIN roles |-> FilterRoleEntry(roles[n], ex)])

\* get_post_exclusion_principal_policy_mapping, for an Exclusions argument:
\* the entries of the mapping it returns
PostExclusionMapping(es, ex) ==
    FilterGroups(FilterUsers(EntriesOfType(es, User), ex), EntriesOfType(es, Group), ex)
    \o FilterRoles(EntriesOfType(es, Role), ex)

-----------------------------------------------------------------------------
(* The account authorization details *)

Allow == <<65, 108, 108, 111, 119>>
Deny == <<68, 101, 110, 121>>

\* a Statement, with what the Statement Evaluator returns for it:
\* missing_resource_constraints_for_modify_actions and
\* missing_resource_constraints
Statement(effect, modify_actions, all_actions) ==
    [effect |-> effect, modify_actions |-> modify_actions, all_actions |-> all_actions]

\* PrincipalDetail.policy_list: the inline policies, then the attached
\* managed policies, each with its document
PolicyList(inline, attached) ==
    inline \o [i \in DOMAIN attached |->
                  [PolicyName |-> attached[i].PolicyName,
                   PolicyDocument |-> attached[i].PolicyDocument]]

\* a PrincipalDetail as constructed from the snapshot; members starts empty
Principal(name, principal_type, inline, attached, group_member) ==
    [name |-> name,
     arn |-> principal_type \o <<47>> \o name,
     principal_type |-> principal_type,
     inline_principal_policies |-> inline,
     attached_managed_policies |->
         [i \in DOMAIN attached |->
             [PolicyName |-> attached[i].PolicyName,
              PolicyArn |-> attached[i].PolicyArn]],
     policy_list |-> PolicyList(inline, attached),
     group_member |-> group_member,
     assume_role_policy_document |-> IF principal_type = Role THEN <<Allow>> ELSE None,
     members |-> <<>>]

\* exclusions.is_policy_excluded(name)
IsPolicyExcluded(ex, name) == Lower(name) \in ex.policies

\* principal.is_principal_excluded(exclusions)
IsPrincipalExcluded(principal, ex) ==
    \/ principal.principal_type = User /\ Lower(principal.name) \in ex.users
    \/ principal.principal_type = Group /\ Lower(principal.name) \in ex.groups
    \/ principal.principal_type = Role /\ Lower(principal.name) \in ex.roles

\* "arn:aws:iam::aws:" in arn
IsAwsManagedArn(arn) == Contains(arn, AwsArnSegment)

\* the names appended by one loop over the standalone policies: those whose
\* arn is (aws = TRUE) or is not (aws = FALSE) under the AWS-managed segment
PolicyNamesManagedBy(ps, aws) ==
    Flatten([n \in DOMAIN ps |->
                IF IsAwsManagedArn(ps[n].arn) = aws THEN <<ps[n].policy_name>> ELSE <<>>])

\* the names appended by the loop over the attached managed policies of one
\* principal
AttachedNamesOf(principal, aws) ==
    Flatten([n \in DOMAIN principal.attached_managed_policies |->
                IF IsAwsManagedArn(principal.attached_managed_policies[n].PolicyArn) = aws
                THEN <<principal.attached_managed_policies[n].PolicyName>>
                ELSE <<>>])

\* the names appended by one loop over a detail list
AttachedNamesManagedBy(principals, aws) ==
    Flatten([n \in DOMAIN principals |-> AttachedNamesOf(principals[n], aws)])

\* the list without the final list(dict.fromkeys(...))
AwsManagedPoliciesInUse_NoDedup(us, gs, rs, ps) ==
    PolicyNamesManagedBy(ps, TRUE)
    \o AttachedNamesManagedBy(gs, TRUE)
    \o AttachedNamesManagedBy(us, TRUE)
    \o AttachedNamesManagedBy(rs, TRUE)

\* AuthorizationDetails._aws_managed_policies_in_use: the policies, then
\* the groups, then the users, then the roles
AwsManagedPoliciesInUse(us, gs, rs, ps) ==
    DictFromKeys(PolicyNamesManagedBy(ps, TRUE)
                 \o AttachedNamesManagedBy(gs, TRUE)
                 \o AttachedNamesManagedBy(us, TRUE)
                 \o AttachedNamesManagedBy(rs, TRUE))

\* AuthorizationDetails._customer_managed_policies_in_use, in the same order
CustomerManagedPoliciesInUse(us, gs, rs, ps) ==
    DictFromKeys(PolicyNamesManagedBy(ps, FALSE)
                 \o AttachedNamesManagedBy(gs, FALSE)
                 \o AttachedNamesManagedBy(us, FALSE)
                 \o AttachedNamesManagedBy(rs, FALSE))

\* AuthorizationDetails.principals: users, then groups, then roles
Principals(us, gs, rs) == us \o gs \o rs

\* the entry dict of principal_policy_mapping
MappingDict(principal, policy_type, managed_by, policy_name, group_membership) ==
    [Principal |-> principal.name, Type |-> principal.principal_type,
     PolicyType |-> policy_type, ManagedBy |-> managed_by,
     PolicyName |-> policy_name, GroupMembership |-> group_membership]

ManagedBy(attached_managed_policy) ==
    IF IsAwsManagedArn(attached_managed_policy.PolicyArn) THEN AWS ELSE Customer

\* the entries for the inline, then the attached managed policies of
\* `source`, attributed to `principal`
PolicyEntries(principal, source, group_membership) ==
    (IF Truthy(source.inline_principal_policies)
     THEN [i \in DOMAIN source.inline_principal_policies |->
              MappingDict(principal, Inline, Customer,
                          source.inline_principal_policies[i].PolicyName,
                          group_membership)]
     ELSE <<>>)
    \o
    (IF Truthy(source.attached_managed_policies)
     THEN [i \in DOMAIN source.attached_managed_policies |->
              MappingDict(principal, Managed,
                          ManagedBy(source.attached_managed_policies[i]),
                          source.attached_managed_policies[i].PolicyName,
                          group_membership)]
     ELSE <<>>)

\* the innermost loop body without the comparison of the name with the
\* group membership
InheritedFrom_AnyGroup(principal, group_membership, some_principal) ==
    IF some_principal.principal_type = Group
    THEN PolicyEntries(principal, some_principal, principal.group_member)
    ELSE <<>>

\* the body of the innermost loop over all principals: the entries that
\* `principal` inherits from `some_principal` for one of its group
\* memberships
InheritedFrom(principal, group_membership, some_principal) ==
    IF /\ some_principal.principal_type = Group
       /\ some_principal.name = group_membership
    THEN PolicyEntries(principal, some_principal, principal.group_member)
    ELSE <<>>

\* the group loop of principal_policy_mapping, run for User principals
InheritedEntries(principal, all_principals) ==
    IF principal.principal_type = User
    THEN Flatten([m \in DOMAIN principal.group_member |->
             Flatten([n \in DOMAIN all_principals |->
                 InheritedFrom(principal, principal.group_member[m],
                               all_principals[n])])])
    ELSE <<>>

\* the list built by principal_policy_mapping before it is sorted
PrincipalEntries(principal, all_principals) ==
    PolicyEntries(principal, principal, None)
    \o InheritedEntries(principal, all_principals)

AllPrincipalEntries(all_principals) ==
    Flatten([n \in DOMAIN all_principals |->
                PrincipalEntries(all_principals[n], all_principals)])

UnsortedPrincipalPolicyMapping(us, gs, rs) == AllPrincipalEntries(Principals(us, gs, rs))

\* AuthorizationDetails.principal_policy_mapping
PrincipalPolicyMapping(us, gs, rs) ==
    SortMapping(UnsortedPrincipalPolicyMapping(us, gs, rs))

\* the Statement Evaluator, called for Allow statements only
StatementActions(statement, modify_only) ==
    IF modify_only
    THEN (IF statement.effect = Allow THEN statement.modify_actions ELSE <<>>)
    ELSE (IF statement.effect = Allow THEN statement.all_actions ELSE <<>>)

\* actions_missing_resource_constraints after the statement loop
DocumentActions(policy_document, modify_only) ==
    Flatten([n \in DOMAIN policy_document |->
                StatementActions(policy_document[n], modify_only)])

\* sorted list of str
SortActions(actions) ==
    LET Ins(t, x) ==
            InsertAfter(t, x, Cardinality({j \in 1..Len(t) : ~StrLess(x, t[j])}))
        F[i \in 0..Len(actions)] == IF i = 0 THEN <<>> ELSE Ins(F[i - 1], actions[i])
    IN  F[Len(actions)]

\* the groups dict of scan_principal_type_details, as its items in
\* insertion order
GroupMemberPairs(principal) ==
    IF /\ principal.principal_type = Users
       /\ Truthy(principal.group_member)
    THEN [i \in DOMAIN principal.group_member |->
             <<principal.group_member[i], principal.name>>]
    ELSE <<>>

GroupsDict(principals) ==
    LET pairs == Flatten([n \in DOMAIN principals |-> GroupMemberPairs(principals[n])])
        keys == DictFromKeys([i \in DOMAIN pairs |-> pairs[i][1]])
    IN  [k \in DOMAIN keys |->
            [key |-> keys[k],
             val |-> Flatten([n \in DOMAIN pairs |->
                         IF pairs[n][1] = keys[k] THEN <<pairs[n][2]>> ELSE <<>>])]]

\* the member resolution loop of scan_principal_type_details: the
\* principals of the list, members extended
ResolveMembers(principals) ==
    LET groups == GroupsDict(principals)
    IN  [i \in DOMAIN principals |->
            IF principals[i].principal_type = Groups
            THEN [principals[i] EXCEPT
                     !.members = @ \o Flatten([n \in DOMAIN groups |->
                         IF Lower(groups[n].key) = Lower(principals[i].name)
                         THEN groups[n].val ELSE <<>>])]
            ELSE principals[i]]

\* UserFinding(...), GroupFinding(...), RoleFinding(...) as constructed for a
\* principal and one policy of its policy_list
UserFinding(principal, policy, actions, ex) ==
    [policy_name |-> policy.PolicyName, arn |-> principal.arn, actions |-> actions,
     policy_document |-> policy.PolicyDocument, exclusions |-> ex,
     attached_managed_policies |-> principal.attached_managed_policies,
     group_membership |-> principal.group_member]

GroupFinding(principal, policy, actions, ex) ==
    [policy_name |-> policy.PolicyName, arn |-> principal.arn, actions |-> actions,
     policy_document |-> policy.PolicyDocument, exclusions |-> ex,
     members |-> principal.members,
     attached_managed_policies |-> principal.attached_managed_policies]

RoleFinding(principal, policy, actions, ex) ==
    [policy_name |-> policy.PolicyName, arn |-> principal.arn, actions |-> actions,
     policy_document |-> policy.PolicyDocument, exclusions |-> ex,
     assume_role_policy_document |-> principal.assume_role_policy_document,
     attached_managed_policies |-> principal.attached_managed_policies]

\* the policy loop body without the test that the accumulated actions are
\* non-empty
ScanPrincipalPolicy_NoEmptyTest(f, principal, policy, ex, modify_only) ==
    IF IsPolicyExcluded(ex, policy.PolicyName) THEN f
    ELSE IF IsPrincipalExcluded(principal, ex) THEN f
    ELSE LET actions == DocumentActions(policy.PolicyDocument, modify_only)
         IN  IF principal.principal_type = User
             THEN [f EXCEPT !.users =
                      Append(@, UserFinding(principal, policy, actions, ex))]
             ELSE IF principal.principal_type = Group
             THEN [f EXCEPT !.groups =
                      Append(@, GroupFinding(principal, policy, actions, ex))]
             ELSE [f EXCEPT !.roles =
                      Append(@, RoleFinding(principal, policy, actions, ex))]

\* the body of the policy loop of scan_principal_type_details
ScanPrincipalPolicy(f, principal, policy, ex, modify_only) ==
    IF IsPolicyExcluded(ex, policy.PolicyName) THEN f
    ELSE IF IsPrincipalExcluded(principal, ex) THEN f
    ELSE LET actions == DocumentActions(policy.PolicyDocument, modify_only)
         IN  IF ~Truthy(actions) THEN f
             ELSE IF principal.principal_type = User
                  THEN [f EXCEPT !.users =
                           Append(@, UserFinding(principal, policy, actions, ex))]
             ELSE IF principal.principal_type = Group
                  THEN [f EXCEPT !.groups =
                           Append(@, GroupFinding(principal, policy, actions, ex))]
             ELSE IF principal.principal_type = Role
                  THEN [f EXCEPT !.roles =
                           Append(@, RoleFinding(principal, policy, actions, ex))]
             ELSE f

\* the scanning loop of scan_principal_type_details over the (resolved)
\* principals: the aggregator afterwards
ScanPrincipals(f, principals, ex, modify_only) ==
    LET pairs == Flatten([n \in DOMAIN principals |->
                     [i \in DOMAIN principals[n].policy_list |->
                         <<principals[n], principals[n].policy_list[i]>>]])
        F[i \in 0..Len(pairs)] ==
            IF i = 0 THEN f
            ELSE ScanPrincipalPolicy(F[i - 1], pairs[i][1], pairs[i][2], ex, modify_only)
    IN  F[Len(pairs)]

\* a call that the scan of the i-th policy of a principal makes to a
\* collaborator
Call(fn, principal, i) == [fn |-> fn, arn |-> principal.arn, policy |-> i]

\* the policy loop body with the two exclusion tests in the other order
PolicyCalls_PrincipalTestFirst(principal, i, ex, modify_only) ==
    <<Call("is_principal_excluded", principal, i)>>
    \o (IF IsPrincipalExcluded(principal, ex) THEN <<>>
        ELSE <<Call("is_policy_excluded", principal, i)>>
             \o (IF IsPolicyExcluded(ex, principal.policy_list[i].PolicyName) THEN <<>>
                 ELSE Flatten([n \in DOMAIN principal.policy_list[i].PolicyDocument |->
                          IF principal.policy_list[i].PolicyDocument[n].effect = Allow
                          THEN <<Call("missing_resource_constraints", principal, i)>>
                          ELSE <<>>])))

\* the calls made by the body of the policy loop of
\* scan_principal_type_details, in order: the if, the elif, and in the else
\* branch one call of the statement evaluator per Allow statement
PolicyCalls(principal, i, ex, modify_only) ==
    <<Call("is_policy_excluded", principal, i)>>
    \o (IF IsPolicyExcluded(ex, principal.policy_list[i].PolicyName) THEN <<>>
        ELSE <<Call("is_principal_excluded", principal, i)>>
             \o (IF IsPrincipalExcluded(principal, ex) THEN <<>>
                 ELSE Flatten([n \in DOMAIN principal.policy_list[i].PolicyDocument |->
                          IF principal.policy_list[i].PolicyDocument[n].effect = Allow
                          THEN <<Call("missing_resource_constraints", principal, i)>>
                          ELSE <<>>])))

\* the calls made by the policy loop for one principal
PrincipalCalls(principal, ex, modify_only) ==
    Flatten([i \in DOMAIN principal.policy_list |->
                PolicyCalls(principal, i, ex, modify_only)])

\* the calls made by the scanning loop of scan_principal_type_details
ScanCalls(principals, ex, modify_only) ==
    Flatten([n \in DOMAIN principals |-> PrincipalCalls(principals[n], ex, modify_only)])

\* the body of the policy loop of scan_policy_details
PolicyFinding(policy, actions, ex) ==
    [policy_name |-> policy.policy_name, arn |-> policy.arn, actions |-> actions,
     policy_document |-> policy.policy_document, exclusions |-> ex]

ScanPolicy(f, policy, ex, modify_only) ==
    IF \/ IsPolicyExcluded(ex, policy.policy_name)
       \/ IsPolicyExcluded(ex, policy.full_policy_path)
    THEN f
    ELSE LET actions == DocumentActions(policy.policy_document, modify_only)
         IN  IF ~Truthy(actions) THEN f
             ELSE [f EXCEPT !.policies =
                      Append(@, PolicyFinding(policy, SortActions(DictFromKeys(actions)), ex))]

\* scan_policy_details, for an Exclusions argument: the aggregator afterwards
ScanPolicies(f, ps, ex, modify_only) ==
    LET F[i \in 0..Len(ps)] ==
            IF i = 0 THEN f ELSE ScanPolicy(F[i - 1], ps[i], ex, modify_only)
    IN  F[Len(ps)]

\* Findings(exclusions): the empty aggregator
NoFindings(exclusions) ==
    [users |-> <<>>, groups |-> <<>>, roles |-> <<>>, policies |-> <<>>,
     principal_policy_mapping |-> <<>>, exclusions |-> exclusions]

\* missing_resource_constraints without the reset of self.findings
ScanFindings_NoReset(f, us, gs, rs, ps, ex, modify_only) ==
    IF ~IsExclusions(ex) THEN f
    ELSE LET f1 == ScanPrincipals(f, ResolveMembers(us), ex, modify_only)
             f2 == ScanPrincipals(f1, ResolveMembers(gs), ex, modify_only)
             f3 == ScanPrincipals(f2, ResolveMembers(rs), ex, modify_only)
             f4 == [f3 EXCEPT !.principal_policy_mapping =
                        PrincipalPolicyMapping(ResolveMembers(us), ResolveMembers(gs),
                                               ResolveMembers(rs))]
         IN  ScanPolicies(f4, ps, ex, modify_only)

\* missing_resource_constraints with the reset ahead of the argument check
ScanFindings_ResetFirst(f, us, gs, rs, ps, ex, modify_only) ==
    IF ~IsExclusions(ex) THEN NoFindings(ex)
    ELSE ScanFindings_NoReset(NoFindings(ex), us, gs, rs, ps, ex, modify_only)

\* missing_resource_constraints: self.findings when the call ends (by
\* return or by the exception of the argument check)
ScanFindings(f, us, gs, rs, ps, ex, modify_only) ==
    IF ~IsExclusions(ex) THEN f
    ELSE LET f0 == NoFindings(ex)
             f1 == ScanPrincipals(f0, ResolveMembers(us), ex, modify_only)
             f2 == ScanPrincipals(f1, ResolveMembers(gs), ex, modify_only)
             f3 == ScanPrincipals(f2, ResolveMembers(rs), ex, modify_only)
             f4 == [f3 EXCEPT !.principal_policy_mapping =
                        PrincipalPolicyMapping(ResolveMembers(us), ResolveMembers(gs),
                                               ResolveMembers(rs))]
         IN  ScanPolicies(f4, ps, ex, modify_only)

\* Findings.json: the serialisable snapshot of the aggregator
FindingsJson(f) ==
    [policies |-> f.policies, users |-> f.users, groups |-> f.groups,
     roles |-> f.roles, principal_policy_mapping |-> f.principal_policy_mapping]

-----------------------------------------------------------------------------
(* The calls *)

\* `again` records, for a scan, that the call before it was a scan with the
\* same arguments that returned
Returned(op, args, val) ==
    [op |-> op, args |-> args, raised |-> FALSE, val |-> val, again |-> FALSE,
     calls |-> <<>>]
Raised(op, args) ==
    [op |-> op, args |-> args, raised |-> TRUE, val |-> None, again |-> FALSE,
     calls |-> <<>>]

\* PrincipalPolicyMapping.add_with_detail
add_with_detail(principal_name, principal_type, policy_type, managed_by, policy_name, comment) ==
    /\ entries' = Append(entries,
                         PrincipalPolicyMappingEntry(principal_name, principal_type,
                                                     policy_type, managed_by,
                                                     policy_name, comment))
    /\ ret' = Returned("add_with_detail", None, None)
    /\ UNCHANGED <<authvars, findings>>

\* PrincipalPolicyMapping.add
add(x) ==
    /\ IF ~IsMappingEntry(x)
       THEN /\ ret' = Raised("add", None)
            /\ UNCHANGED entries
       ELSE /\ entries' = Append(entries, x)
            /\ ret' = Returned("add", None, None)
    /\ UNCHANGED <<authvars, findings>>

\* PrincipalPolicyMapping.json
json ==
    /\ ret' = Returned("json", None, MappingJson(entries))
    /\ UNCHANGED <<authvars, findings, entries>>

\* PrincipalPolicyMapping.get_post_exclusion_principal_policy_mapping
get_post_exclusion_principal_policy_mapping(exclusions) ==
    /\ IF ~IsExclusions(exclusions)
       THEN ret' = Raised("get_post_exclusion_principal_policy_mapping", exclusions)
       ELSE ret' = Returned("get_post_exclusion_principal_policy_mapping", exclusions,
                            PostExclusionMapping(entries, exclusions))
    /\ UNCHANGED <<authvars, findings, entries>>

\* AuthorizationDetails.missing_resource_constraints
missing_resource_constraints(exclusions, modify_only) ==
    /\ findings' = ScanFindings(findings, user_detail_list, group_detail_list,
                                role_detail_list, policies, exclusions, modify_only)
    /\ IF ~IsExclusions(exclusions)
       THEN /\ ret' = Raised("missing_resource_constraints", <<exclusions, modify_only>>)
            /\ UNCHANGED <<user_detail_list, group_detail_list, role_detail_list>>
       ELSE /\ user_detail_list' = ResolveMembers(user_detail_list)
            /\ group_detail_list' = ResolveMembers(group_detail_list)
            /\ role_detail_list' = ResolveMembers(role_detail_list)
            /\ ret' = [Returned("missing_resource_constraints",
                                <<exclusions, modify_only>>, FindingsJson(findings'))
                          EXCEPT !.again =
                              /\ ret.op = "missing_resource_constraints"
                              /\ ret.args = <<exclusions, modify_only>>
                              /\ ~ret.raised,
                                 !.calls =
                              ScanCalls(user_detail_list, exclusions, modify_only)
                              \o ScanCalls(group_detail_list, exclusions, modify_only)
                              \o ScanCalls(role_detail_list, exclusions, modify_only)]
    /\ UNCHANGED <<policies, entries, aws_managed_policies_in_use,
                       customer_managed_policies_in_use>>

\* AuthorizationDetails.scan_policy_details
scan_policy_details(exclusions, modify_only) ==
    /\ IF ~IsExclusions(exclusions)
       THEN /\ ret' = Raised("scan_policy_details", <<exclusions, modify_only>>)
            /\ UNCHANGED findings
       ELSE /\ findings' = ScanPolicies(findings, policies, exclusions, modify_only)
            /\ ret' = Returned("scan_policy_details", <<exclusions, modify_only>>, None)
    /\ UNCHANGED <<authvars, entries>>

\* AuthorizationDetails.scan_principal_type_details, called on one of the
\* three detail lists of the object
scan_principal_type_details(list, exclusions, modify_only) ==
    LET principals == CASE list = "user_detail_list" -> user_detail_list
                        [] list = "group_detail_list" -> group_detail_list
                        [] list = "role_detail_list" -> role_detail_list
        resolved == ResolveMembers(principals)
    IN  /\ IF ~IsExclusions(exclusions)
           THEN /\ ret' = Raised("scan_principal_type_details",
                                 <<list, exclusions, modify_only>>)
                /\ UNCHANGED <<findings, user_detail_list, group_detail_list,
                               role_detail_list>>
           ELSE /\ findings' = ScanPrincipals(findings, resolved, exclusions, modify_only)
                /\ user_detail_list' =
                       IF list = "user_detail_list" THEN resolved ELSE user_detail_list
                /\ group_detail_list' =
                       IF list = "group_detail_list" THEN resolved ELSE group_detail_list
                /\ role_detail_list' =
                       IF list = "role_detail_list" THEN resolved ELSE role_detail_list
                /\ ret' = [Returned("scan_principal_type_details",
                                    <<list, exclusions, modify_only>>, None)
                              EXCEPT !.calls = ScanCalls(resolved, exclusions, modify_only)]
        /\ UNCHANGED <<policies, entries, aws_managed_policies_in_use,
                       customer_managed_policies_in_use>>

\* AuthorizationDetails.principal_policy_mapping (the property)
principal_policy_mapping ==
    /\ ret' = Returned("principal_policy_mapping", None,
                       PrincipalPolicyMapping(user_detail_list, group_detail_list,
                                              role_detail_list))
    /\ UNCHANGED <<authvars, findings, entries>>

\* the entry a caller makes of a dict of principal_policy_mapping:
\* GroupMembership becomes the comment
EntryOfDict(d) ==
    PrincipalPolicyMappingEntry(d.Principal, d.Type, d.PolicyType, d.ManagedBy,
                                d.PolicyName, d.GroupMembership)

-----------------------------------------------------------------------------
(* The inputs *)

\* names: "Al" "al", "G" "g" "h", "R" "r", "P" "p" "q"
Al == <<65, 108>>
al == <<97, 108>>
G == <<71>>
g == <<103>>
h == <<104>>
R == <<82>>
r == <<114>>
P == <<80>>
p == <<112>>
q == <<113>>

\* the Exclusions objects: the sets hold lower-cased names
ExclusionsUniverse ==
    {MkExclusions(u, gs, {}, ps) :
        u \in SUBSET {al}, gs \in SUBSET {g, h}, ps \in SUBSET {p}}
    \cup {MkExclusions({}, {}, {r}, {})}

ExclusionsArgs == ExclusionsUniverse \cup {NotAnExclusions}

\* the most entries added to a mapping object
MaxEntries == 3

EntryUniverse ==
    {PrincipalPolicyMappingEntry(Al, User, Inline, Customer, pn, c) :
        pn \in {P, q}, c \in {None, <<G>>, <<G, h>>}}
    \cup {PrincipalPolicyMappingEntry(gn, Group, Inline, Customer, P, None) :
        gn \in {G, h}}
    \cup {PrincipalPolicyMappingEntry(G, Group, Inline, Customer, P, <<h>>)}
    \cup {PrincipalPolicyMappingEntry(R, Role, Managed, AWS, P, None)}

DEFAULT_EXCLUSIONS == MkExclusions({}, {}, {}, {})

-----------------------------------------------------------------------------
(* A PrincipalPolicyMapping object filled entry by entry and filtered *)

InitMapping ==
    /\ user_detail_list = <<>>
    /\ group_detail_list = <<>>
    /\ role_detail_list = <<>>
    /\ policies = <<>>
    /\ aws_managed_policies_in_use = <<>>
    /\ customer_managed_policies_in_use = <<>>
    /\ findings = NoFindings(DEFAULT_EXCLUSIONS)
    /\ entries = <<>>
    /\ ret = [op |-> "__init__", args |-> None, raised |-> FALSE, val |-> None,
              again |-> FALSE, calls |-> <<>>]

AddWithDetail ==
    /\ Len(entries) < MaxEntries
    /\ \E e \in EntryUniverse :
        add_with_detail(e.principal_name, e.principal_type, e.policy_type,
                        e.managed_by, e.policy_name, e.comment)

Add ==
    /\ Len(entries) < MaxEntries
    /\ \E x \in EntryUniverse \cup {NotAnEntry} : add(x)

Json == json

GetPostExclusion ==
    \E exclusions \in ExclusionsArgs :
        get_post_exclusion_principal_policy_mapping(exclusions)

NextMapping == AddWithDetail \/ Add \/ Json \/ GetPostExclusion

SpecMapping == InitMapping /\ [][NextMapping]_vars

-----------------------------------------------------------------------------
(* An AuthorizationDetails object built from a snapshot and scanned *)

\* "a" "b" "c": action names
act_a == <<97>>
act_b == <<98>>
act_c == <<99>>
bo == <<98, 111>>
cy == <<99, 121>>

\* two Allow statements that return an action twice and out of order
DocDup == <<Statement(Allow, <<act_b, act_a>>, <<act_b, act_a>>),
            Statement(Allow, <<act_a>>, <<act_a, act_c>>)>>
\* no Allow statement returns an action
DocNone == <<Statement(Allow, <<>>, <<>>), Statement(Deny, <<act_a>>, <<act_a>>)>>
\* an action that is no modify action
DocRead == <<Statement(Allow, <<>>, <<act_c>>)>>

\* "arn:aws:iam::<account>:policy/<name>"
PolicyArn(account, name) ==
    <<97, 114, 110, 58, 97, 119, 115, 58, 105, 97, 109, 58, 58>> \o account
    \o <<58, 112, 111, 108, 105, 99, 121, 47>> \o name

\* the accounts "aws" and "123"
AwsAccount == <<97, 119, 115>>
CustomerAccount == <<49, 50, 51>>

InlinePolicy(name, doc) == [PolicyName |-> name, PolicyDocument |-> doc]

AttachedPolicy(name, account, doc) ==
    [PolicyName |-> name, PolicyArn |-> PolicyArn(account, name), PolicyDocument |-> doc]

\* a PolicyDetail of the Policies list
Policy(name, account, doc) ==
    [policy_name |-> name, arn |-> PolicyArn(account, name),
     full_policy_path |-> <<47>> \o name, policy_document |-> doc]

UserSet ==
    {Principal(Al, User, <<InlinePolicy(P, DocDup)>>, <<>>, <<G, h>>),
     Principal(bo, User, <<>>,
               <<AttachedPolicy(P, AwsAccount, DocDup),
                 AttachedPolicy(P, CustomerAccount, DocNone)>>, <<>>),
     Principal(cy, User, <<InlinePolicy(q, DocRead)>>, <<>>, <<G>>)}

GroupSet ==
    {Principal(G, Group, <<InlinePolicy(P, DocDup)>>, <<>>, None),
     Principal(h, Group, <<>>, <<AttachedPolicy(q, CustomerAccount, DocRead)>>, None)}

RoleSet ==
    {Principal(R, Role, <<InlinePolicy(P, DocDup)>>,
               <<AttachedPolicy(q, AwsAccount, DocNone)>>, None)}

PolicySet == {Policy(P, AwsAccount, DocDup), Policy(q, CustomerAccount, DocRead)}

\* the most detail records (users, groups, roles, policies) of a snapshot
MaxDetails == 2

\* the most findings the aggregator holds when a scan_* method is called
\* on its own
MaxFindings == 0

\* no two records of a detail list share a name
DistinctNames(names) == \A i, j \in DOMAIN names : i # j => names[i] # names[j]

ScanExclusions ==
    {DEFAULT_EXCLUSIONS, MkExclusions({}, {g}, {}, {}), MkExclusions({al}, {}, {r}, {p})}

ScanExclusionsArgs == ScanExclusions \cup {NotAnExclusions}

\* the exclusions arguments of the calls that scan one list only
DirectScanExclusionsArgs ==
    {DEFAULT_EXCLUSIONS, MkExclusions({al}, {}, {r}, {p}), NotAnExclusions}

NumFindings(f) == Len(f.users) + Len(f.groups) + Len(f.roles) + Len(f.policies)

\* AuthorizationDetails.__init__
InitAccount ==
    /\ user_detail_list \in SeqsUpTo(UserSet, MaxDetails)
    /\ group_detail_list \in SeqsUpTo(GroupSet, MaxDetails)
    /\ role_detail_list \in SeqsUpTo(RoleSet, MaxDetails)
    /\ policies \in SeqsUpTo(PolicySet, MaxDetails)
    /\ Len(user_detail_list) + Len(group_detail_list) + Len(role_detail_list)
           + Len(policies) <= MaxDetails
    /\ DistinctNames([i \in DOMAIN user_detail_list |-> user_detail_list[i].name])
    /\ DistinctNames([i \in DOMAIN group_detail_list |-> group_detail_list[i].name])
    /\ DistinctNames([i \in DOMAIN role_detail_list |-> role_detail_list[i].name])
    /\ DistinctNames([i \in DOMAIN policies |-> policies[i].arn])
    /\ aws_managed_policies_in_use =
           AwsManagedPoliciesInUse(user_detail_list, group_detail_list,
                                   role_detail_list, policies)
    /\ customer_managed_policies_in_use =
           CustomerManagedPoliciesInUse(user_detail_list, group_detail_list,
                                        role_detail_list, policies)
    /\ findings = NoFindings(DEFAULT_EXCLUSIONS)
    /\ ret = [op |-> "__init__", args |-> None, raised |-> FALSE, val |-> None,
              again |-> FALSE, calls |-> <<>>]

\* the mapping object to which every entry of the account's mapping has been
\* added, in the order of the mapping
LoadedEntries(us, gs, rs) ==
    LET mapping == PrincipalPolicyMapping(us, gs, rs)
    IN  [i \in DOMAIN mapping |-> EntryOfDict(mapping[i])]

\* the account after __init__, with a mapping object that holds its mapping
Init ==
    /\ InitAccount
    /\ entries = LoadedEntries(user_detail_list, group_detail_list, role_detail_list)

MissingResourceConstraints ==
    \E exclusions \in ScanExclusionsArgs, modify_only \in BOOLEAN :
        missing_resource_constraints(exclusions, modify_only)

ScanPolicyDetails ==
    /\ NumFindings(findings) <= MaxFindings
    /\ \E exclusions \in DirectScanExclusionsArgs, modify_only \in BOOLEAN :
        scan_policy_details(exclusions, modify_only)

ScanPrincipalTypeDetails ==
    /\ NumFindings(findings) <= MaxFindings
    /\ \E list \in {"user_detail_list", "group_detail_list", "role_detail_list"},
          exclusions \in DirectScanExclusionsArgs, modify_only \in BOOLEAN :
        scan_principal_type_details(list, exclusions, modify_only)

GetPostExclusionOfScan ==
    \E exclusions \in {DEFAULT_EXCLUSIONS, NotAnExclusions} :
        get_post_exclusion_principal_policy_mapping(exclusions)

Next ==
    \/ MissingResourceConstraints
    \/ ScanPolicyDetails
    \/ ScanPrincipalTypeDetails
    \/ GetPostExclusionOfScan

Spec == Init /\ [][Next]_vars

-----------------------------------------------------------------------------
(* The principal-policy mapping of a snapshot, built, added to a mapping   *)
(* object in any order, emitted and filtered                               *)

PrincipalPolicyMappingProperty == principal_policy_mapping

AddMappingEntry ==
    /\ Len(entries) < MaxEntries
    /\ \E d \in Range(PrincipalPolicyMapping(user_detail_list, group_detail_list,
                                             role_detail_list)) :
        add(EntryOfDict(d))

JsonOfBuild == json

GetPostExclusionOfBuild ==
    \E exclusions \in ScanExclusionsArgs :
        get_post_exclusion_principal_policy_mapping(exclusions)

NextBuild ==
    \/ PrincipalPolicyMappingProperty
    \/ AddMappingEntry
    \/ JsonOfBuild
    \/ GetPostExclusionOfBuild

\* the account after __init__, with a mapping object after its own
InitBuild ==
    /\ InitAccount
    /\ entries = <<>>

SpecBuild == InitBuild /\ [][NextBuild]_vars

-----------------------------------------------------------------------------
(* Claims about the exclusion filter *)

FilterReturned ==
    /\ ret.op = "get_post_exclusion_principal_policy_mapping"
    /\ ~ret.raised

\* the User entries of a mapping
UserEntriesOf(es) == {es[i] : i \in {j \in DOMAIN es : es[j].principal_type = User}}

GroupEntriesOf(es) == {es[i] : i \in {j \in DOMAIN es : es[j].principal_type = Group}}

-----------------------------------------------------------------------------
(* Claims about the mapping builder *)

\* the names of the policies, inline and attached, of a principal
PolicyNamesOf(principal) ==
    {principal.inline_principal_policies[i].PolicyName :
        i \in DOMAIN principal.inline_principal_policies}
    \cup {principal.attached_managed_policies[i].PolicyName :
        i \in DOMAIN principal.attached_managed_policies}

\* C3: for a user U in group G with an inherited entry for G's policy P,
\* when G is in exclusions.groups the filtered mapping holds no entry for U
\* with policy P, whatever other groups U belongs to.
C3_ExcludedGroupRemovesInheritedEntry ==
    FilterReturned =>
        \A U \in Range(user_detail_list), Gp \in Range(group_detail_list) :
            (Gp.name \in Range(U.group_member) /\ Lower(Gp.name) \in ret.args.groups) =>
                \A pn \in PolicyNamesOf(Gp) :
                    ~\E e \in Range(ret.val) :
                        /\ e.principal_type = User
                        /\ e.principal_name = U.name
                        /\ e.policy_name = pn

\* C4: the list returned by principal_policy_mapping, and the one returned
\* by PrincipalPolicyMapping.json, is in non-decreasing order of
\* (Type, Principal, PolicyType, PolicyName).
C4_MappingEmittedSorted ==
    (ret.op \in {"principal_policy_mapping", "json"} /\ ~ret.raised) =>
        IsSortedBy([i \in DOMAIN ret.val |-> MappingKey(ret.val[i])])

\* principal_policy_mapping returned a list that it had built in another
\* order
C4_Witness ==
    /\ ret.op = "principal_policy_mapping"
    /\ Len(ret.val) >= 3
    /\ ret.val # UnsortedPrincipalPolicyMapping(user_detail_list, group_detail_list,
                                                role_detail_list)

\* the orders a list can be given in
PermutationsOfSeq(s) ==
    {[i \in DOMAIN s |-> s[f[i]]] : f \in Permutations(DOMAIN s)}

\* a principal with its inline policies, attached policies and group
\* memberships in any order
PermutedPrincipal(principal) ==
    {[principal EXCEPT !.inline_principal_policies = a,
                       !.attached_managed_policies = b,
                       !.group_member = c] :
        a \in PermutationsOfSeq(principal.inline_principal_policies),
        b \in PermutationsOfSeq(principal.attached_managed_policies),
        c \in PermutationsOfSeq(principal.group_member)}

\* a detail list in any order, each principal permuted within
PermutedList(principals) ==
    UNION {{t \in [DOMAIN s -> UNION {PermutedPrincipal(s[i]) : i \in DOMAIN s}] :
               \A i \in DOMAIN s : t[i] \in PermutedPrincipal(s[i])} :
           s \in PermutationsOfSeq(principals)}

\* C5: principal_policy_mapping does not depend on the order of the input:
\* snapshots that differ by a permutation of the principals of a detail list
\* or of the policies or group memberships of a principal give the same
\* mapping, entry for entry.
C5_MappingOrderIndependent ==
    (ret.op = "principal_policy_mapping") =>
        \A us \in PermutedList(user_detail_list),
           gs \in PermutedList(group_detail_list),
           rs \in PermutedList(role_detail_list) :
            PrincipalPolicyMapping(us, gs, rs) = ret.val

-----------------------------------------------------------------------------
(* Claims about the scan *)

ScanOp == "missing_resource_constraints"

ScanReturned == ret.op = ScanOp /\ ~ret.raised

AllFindings(f) == Range(f.users) \cup Range(f.groups) \cup Range(f.roles)
                      \cup Range(f.policies)

\* C6: two calls of missing_resource_constraints in sequence, with the same
\* exclusions and modify_only, return the same result, and leave the same
\* aggregator and the same group members.
C6_ScanIdempotent ==
    [][(ScanReturned /\ ret'.op = ScanOp /\ ~ret'.raised /\ ret'.args = ret.args) =>
           /\ ret'.val = ret.val
           /\ findings' = findings
           /\ group_detail_list' = group_detail_list]_vars

\* a second scan in sequence that returned findings of principals and
\* policies
C6_Witness ==
    /\ ScanReturned
    /\ ret.again
    /\ ret.val.policies # <<>>
    /\ ret.val.users # <<>>
    /\ ret.val.principal_policy_mapping # <<>>

\* the exclusions argument of the last call
ExclusionsArgument(rt) ==
    IF rt.op = "get_post_exclusion_principal_policy_mapping" THEN rt.args
    ELSE IF rt.op = "scan_principal_type_details" THEN rt.args[2]
    ELSE rt.args[1]

ExclusionsTakingOps ==
    {"missing_resource_constraints", "scan_policy_details",
     "scan_principal_type_details", "get_post_exclusion_principal_policy_mapping"}

\* C7: a call of missing_resource_constraints, scan_policy_details,
\* scan_principal_type_details or
\* get_post_exclusion_principal_policy_mapping with an argument that is not
\* an Exclusions object raises, and leaves the aggregator, the principals
\* (their members) and the mapping's entries as they were.
C7_InvalidExclusionsChangeNothing ==
    [][(ret'.op \in ExclusionsTakingOps) =>
           /\ ret'.raised <=> ~IsExclusions(ExclusionsArgument(ret'))
           /\ ret'.raised =>
                  /\ findings' = findings
                  /\ authvars' = authvars
                  /\ entries' = entries]_vars

\* a scan that raised on an aggregator holding findings
C7_Witness ==
    /\ ret.op = ScanOp
    /\ ret.raised
    /\ ~IsExclusions(ret.args[1])
    /\ NumFindings(findings) > 0

\* C8: after a scan, the members of each Group principal hold the name of
\* every User principal whose group memberships name the group, compared
\* case-insensitively.
C8_GroupMembersResolved ==
    ScanReturned =>
        \A Gp \in Range(group_detail_list), U \in Range(user_detail_list) :
            (\E i \in DOMAIN U.group_member : Lower(U.group_member[i]) = Lower(Gp.name))
                => U.name \in Range(Gp.members)

\* the findings a scan must hold for a principal and one of its policies
FindingsFor(f, principal, policy) ==
    {x \in Range(f.users) \cup Range(f.groups) \cup Range(f.roles) :
        /\ x.arn = principal.arn
        /\ x.policy_name = policy.PolicyName
        /\ x.policy_document = policy.PolicyDocument}

\* C9: a scan adds a Finding for a (principal, policy) pair iff the policy
\* name is not policy-excluded, the principal is not excluded and the
\* actions returned for the Allow statements of the policy are not empty;
\* for a standalone policy, iff neither its name nor its path is excluded
\* and the actions are not empty. Every Finding has a non-empty actions list.
C9_FindingIffNotExcludedAndActions ==
    /\ \A x \in AllFindings(findings) : x.actions # <<>>
    /\ ScanReturned =>
        /\ \A principal \in Range(Principals(user_detail_list, group_detail_list,
                                             role_detail_list)) :
              \A i \in DOMAIN principal.policy_list :
                  (FindingsFor(findings, principal, principal.policy_list[i]) # {}) <=>
                      /\ ~IsPolicyExcluded(ret.args[1], principal.policy_list[i].PolicyName)
                      /\ ~IsPrincipalExcluded(principal, ret.args[1])
                      /\ DocumentActions(principal.policy_list[i].PolicyDocument,
                                         ret.args[2]) # <<>>
        /\ \A policy \in Range(policies) :
              (\E x \in Range(findings.policies) : x.arn = policy.arn) <=>
                  /\ ~IsPolicyExcluded(ret.args[1], policy.policy_name)
                  /\ ~IsPolicyExcluded(ret.args[1], policy.full_policy_path)
                  /\ DocumentActions(policy.policy_document, ret.args[2]) # <<>>

\* a scan that reported one policy of a user and not another, whose
\* statements return no action, neither being excluded
C9_Witness ==
    /\ ScanReturned
    /\ \E principal \in Range(user_detail_list) :
          /\ ~IsPrincipalExcluded(principal, ret.args[1])
          /\ \E i, j \in DOMAIN principal.policy_list :
                /\ ~IsPolicyExcluded(ret.args[1], principal.policy_list[i].PolicyName)
                /\ FindingsFor(findings, principal, principal.policy_list[i]) # {}
                /\ DocumentActions(principal.policy_list[j].PolicyDocument,
                                   ret.args[2]) = <<>>
                /\ FindingsFor(findings, principal, principal.policy_list[j]) = {}

NoDuplicates(s) == \A i, j \in DOMAIN s : i # j => s[i] # s[j]

\* C10: the actions handed to every Finding (PolicyFinding, UserFinding,
\* GroupFinding, RoleFinding) hold no action twice and are in ascending
\* lexicographic order.
C10_FindingActionsDedupedSorted ==
    \A x \in AllFindings(findings) :
        /\ NoDuplicates(x.actions)
        /\ IsSortedBy([i \in DOMAIN x.actions |-> <<x.actions[i]>>])

-----------------------------------------------------------------------------
(* Claims about the managed policies in use *)

\* the (name, arn) pairs met when visiting the standalone policies and then
\* the attached managed policies of three detail lists in the given order
Visits(ps, first, second, third) ==
    LET OfPrincipal(principal) ==
            [n \in DOMAIN principal.attached_managed_policies |->
                [name |-> principal.attached_managed_policies[n].PolicyName,
                 arn |-> principal.attached_managed_policies[n].PolicyArn]]
        OfList(principals) ==
            Flatten([n \in DOMAIN principals |-> OfPrincipal(principals[n])])
    IN  [n \in DOMAIN ps |-> [name |-> ps[n].policy_name, arn |-> ps[n].arn]]
        \o OfList(first) \o OfList(second) \o OfList(third)

\* the position of the first visit of a name whose arn is classified as
\* asked (0 when there is none)
FirstVisit(visits, name, aws) ==
    LET hits == {n \in DOMAIN visits :
                    visits[n].name = name /\ IsAwsManagedArn(visits[n].arn) = aws}
    IN  IF hits = {} THEN 0 ELSE CHOOSE n \in hits : \A k \in hits : n <= k

\* list is the first-occurrence-preserving deduplication of the names that
\* the visits classify as asked
IsDedupOfVisits(list, visits, aws) ==
    /\ \A i, j \in DOMAIN list : i # j => list[i] # list[j]
    /\ {list[i] : i \in DOMAIN list} =
           {visits[n].name : n \in {k \in DOMAIN visits :
                                       IsAwsManagedArn(visits[k].arn) = aws}}
    /\ \A i, j \in DOMAIN list :
           i < j => FirstVisit(visits, list[i], aws) < FirstVisit(visits, list[j], aws)

\* C11 (as stated): each of the two lists is the first-occurrence
\* deduplication of the names classified into it when visiting the
\* standalone policies, then the attached policies of every User, then of
\* every Group, then of every Role; a name is in the AWS list exactly when a
\* visited arn carrying it contains the AWS-managed segment.
C11_InUseListsUsersBeforeGroups ==
    LET visits == Visits(policies, user_detail_list, group_detail_list, role_detail_list)
    IN  /\ IsDedupOfVisits(aws_managed_policies_in_use, visits, TRUE)
        /\ IsDedupOfVisits(customer_managed_policies_in_use, visits, FALSE)

\* C11 (amended): the same, the visit being the standalone policies, then
\* the attached policies of every Group, then of every User, then of every
\* Role.
C11_InUseListsGroupsBeforeUsers ==
    LET visits == Visits(policies, group_detail_list, user_detail_list, role_detail_list)
    IN  /\ IsDedupOfVisits(aws_managed_policies_in_use, visits, TRUE)
        /\ IsDedupOfVisits(customer_managed_policies_in_use, visits, FALSE)

\* an account whose customer list holds the name of a group's policy before
\* the name of a user's policy
C11_Witness ==
    /\ Len(customer_managed_policies_in_use) >= 2
    /\ \E Gp \in Range(group_detail_list), U \in Range(user_detail_list) :
          /\ AttachedNamesOf(Gp, FALSE) # <<>>
          /\ AttachedNamesOf(U, FALSE) # <<>>
          /\ customer_managed_policies_in_use[1] = AttachedNamesOf(Gp, FALSE)[1]
          /\ customer_managed_policies_in_use[2] = AttachedNamesOf(U, FALSE)[1]

-----------------------------------------------------------------------------
(* Claims about the content of the mapping *)

\* the policies of a principal as (PolicyType, ManagedBy, PolicyName)
PolicyTags(principal) ==
    {<<"inline", i>> : i \in DOMAIN principal.inline_principal_policies}
    \cup {<<"attached", i>> : i \in DOMAIN principal.attached_managed_policies}

\* the mapping entry that stands for one policy of `source`, attributed to
\* `principal` with the given comment
EntryFor(principal, source, tag, comment) ==
    IF tag[1] = "inline"
    THEN [Principal |-> principal.name, Type |-> principal.principal_type,
          PolicyType |-> Inline, ManagedBy |-> Customer,
          PolicyName |-> source.inline_principal_policies[tag[2]].PolicyName,
          GroupMembership |-> comment]
    ELSE [Principal |-> principal.name, Type |-> principal.principal_type,
          PolicyType |-> Managed,
          ManagedBy |-> IF Contains(source.attached_managed_policies[tag[2]].PolicyArn,
                                    AwsArnSegment)
                        THEN AWS ELSE Customer,
          PolicyName |-> source.attached_managed_policies[tag[2]].PolicyName,
          GroupMembership |-> comment]

\* the relationships of the account: a principal with one of its own
\* policies, and a user with one policy of a group that its group
\* memberships name; each with the entry it stands for
ExistingRelationships ==
    LET all == user_detail_list \o group_detail_list \o role_detail_list
    IN  UNION {{[kind |-> "direct", principal |-> n, group |-> 0, tag |-> t,
                 entry |-> EntryFor(all[n], all[n], t, None)] :
                    t \in PolicyTags(all[n])} : n \in DOMAIN all}
        \cup
        UNION {{[kind |-> "inherited", principal |-> nm[1], group |-> nm[2], tag |-> t,
                 entry |-> EntryFor(user_detail_list[nm[1]], group_detail_list[nm[2]], t,
                                    user_detail_list[nm[1]].group_member)] :
                    t \in PolicyTags(group_detail_list[nm[2]])} :
               nm \in {x \in (DOMAIN user_detail_list) \X (DOMAIN group_detail_list) :
                          group_detail_list[x[2]].name
                              \in Range(user_detail_list[x[1]].group_member)}}

\* C12: principal_policy_mapping holds exactly one entry per direct
\* (principal, inline policy) and (principal, attached policy) relationship,
\* with an empty comment, and for User principals only one entry per policy
\* of each Group named in the user's group memberships, attributed to the
\* user with the user's whole group list as comment; Group and Role
\* principals get no inherited entry.
C12_MappingIsTheRelationships ==
    (ret.op = "principal_policy_mapping") =>
        /\ Len(ret.val) = Cardinality(ExistingRelationships)
        /\ \A x \in ExistingRelationships :
              Cardinality({i \in DOMAIN ret.val : ret.val[i] = x.entry})
                  = Cardinality({y \in ExistingRelationships : y.entry = x.entry})
        /\ \A i \in DOMAIN ret.val :
              Truthy(ret.val[i].GroupMembership) => ret.val[i].Type = User

\* a mapping with a direct entry of a user, an entry the user inherits from
\* one of its two groups, and the direct entry of that group
C12_Witness ==
    /\ ret.op = "principal_policy_mapping"
    /\ \E x, y, z \in ExistingRelationships :
          /\ x.kind = "direct" /\ y.kind = "inherited" /\ z.kind = "direct"
          /\ x.entry.Type = User /\ x.entry.Principal = y.entry.Principal
          /\ z.entry.Type = Group
          /\ Len(y.entry.GroupMembership) = 2
          /\ {x.entry, y.entry, z.entry} \subseteq Range(ret.val)

-----------------------------------------------------------------------------
(* Claims about the order of the exclusion tests *)

\* the positions in the calls of the last scan of the calls of fn made for
\* the i-th policy of the principal
CallsAt(fn, principal, i) ==
    {k \in DOMAIN ret.calls : ret.calls[k] = Call(fn, principal, i)}

\* C13: in scan_principal_type_details the policy-exclusion test of a
\* (principal, policy) pair comes before its principal-exclusion test, and
\* when the policy name is excluded neither the principal-exclusion query
\* nor the statement evaluator is called for the pair.
C13_PolicyExclusionTestedFirst ==
    (ret.op \in {"missing_resource_constraints", "scan_principal_type_details"}
        /\ ~ret.raised) =>
        \A principal \in Range(Principals(user_detail_list, group_detail_list,
                                          role_detail_list)) :
            \A i \in DOMAIN principal.policy_list :
                /\ \A k \in CallsAt("is_principal_excluded", principal, i) :
                      \E j \in CallsAt("is_policy_excluded", principal, i) : j < k
                /\ \A k \in CallsAt("missing_resource_constraints", principal, i) :
                      \E j \in CallsAt("is_principal_excluded", principal, i) : j < k
                /\ (CallsAt("is_policy_excluded", principal, i) # {}
                       /\ IsPolicyExcluded(ret.args[IF ret.op = "missing_resource_constraints"
                                                    THEN 1 ELSE 2],
                                           principal.policy_list[i].PolicyName))
                      => /\ CallsAt("is_principal_excluded", principal, i) = {}
                         /\ CallsAt("missing_resource_constraints", principal, i) = {}

\* a scan that met a policy with an excluded name on a principal, and another
\* pair for which it went as far as the statement evaluator
C13_Witness ==
    /\ ret.op = "missing_resource_constraints"
    /\ ~ret.raised
    /\ \E principal \in Range(user_detail_list) :
          \E i \in DOMAIN principal.policy_list :
              /\ IsPolicyExcluded(ret.args[1], principal.policy_list[i].PolicyName)
              /\ CallsAt("is_policy_excluded", principal, i) # {}
              /\ CallsAt("is_principal_excluded", principal, i) = {}
    /\ \E k \in DOMAIN ret.calls : ret.calls[k].fn = "missing_resource_constraints"

-----------------------------------------------------------------------------
(* Claims about the filter as a whole *)

\* how many times x occurs in the list s
Occurrences(s, x) == Cardinality({i \in DOMAIN s : s[i] = x})

\* C14: the filter never multiplies entries: an entry occurs in the filtered
\* mapping at most as many times as in the input (a surviving User entry
\* with several non-excluded groups is emitted once), so the filter applied
\* to its own output with the same exclusions returns the same entries.
C14_FilterNeverMultiplies ==
    FilterReturned =>
        /\ \A e \in Range(ret.val) : Occurrences(ret.val, e) <= Occurrences(entries, e)
        /\ PostExclusionMapping(ret.val, ret.args) = ret.val

\* every name excluded by E1 is excluded by E2
ExcludesAtMost(E1, E2) ==
    /\ E1.users \subseteq E2.users
    /\ E1.groups \subseteq E2.groups
    /\ E1.roles \subseteq E2.roles
    /\ E1.policies \subseteq E2.policies

\* C15: the filter is monotone in the exclusions: for a fixed mapping, when
\* E2 excludes every user, group, role and policy that E1 excludes, every
\* entry of the output under E2 is in the output under E1.
C15_FilterMonotone ==
    FilterReturned =>
        \A E1 \in ExclusionsUniverse :
            ExcludesAtMost(E1, ret.args) =>
                Range(ret.val) \subseteq Range(PostExclusionMapping(entries, E1))

\* a filter call whose exclusions dropped a User entry and a Group entry
\* that smaller exclusions keep, and kept another entry
C15_Witness ==
    /\ FilterReturned
    /\ ret.val # <<>>
    /\ \E E1 \in ExclusionsUniverse :
          /\ ExcludesAtMost(E1, ret.args)
          /\ E1 # ret.args
          /\ \E e \in Range(PostExclusionMapping(entries, E1)) \ Range(ret.val) :
                e.principal_type = Group
          /\ \E e \in Range(PostExclusionMapping(entries, E1)) \ Range(ret.val) :
                e.principal_type = User

====
